---- MODULE Spec2Model ----
(***************************************************************************)
(* A model of VodPackage (src/VodPackage.py): the in-memory form of a      *)
(* CableLabs ADI package, its mutation verbs, the rescan of the content    *)
(* files and the serializer.                                               *)
(*                                                                         *)
(* Python dictionaries are functions (D_ams, D_app) or, where the          *)
(* iteration order is observable (D_content in check_files), association   *)
(* lists in insertion order.  Strings are strings; an App_Data value is a  *)
(* string or, for a name of multiples, a sequence of strings.  A raised    *)
(* exception is recorded in result, a returned value in ret.               *)
(***************************************************************************)
EXTENDS Integers, Sequences, FiniteSets, TLC

VARIABLES
  xml_doc,      \* the document parsed by __init__ (self.tree), never mutated here
  D_ams,        \* self.D_ams: section -> (attribute name -> string)
  D_app,        \* self.D_app: section -> (App_Data name -> string or sequence)
  D_content,    \* self.D_content: association list <<section, file name>>
  has_preview,  \* self.has_preview
  has_poster,   \* self.has_poster
  is_update,    \* self.is_update
  is_delete,    \* self.is_delete
  param_skip,   \* the configured set of App_Data names left out on write
  xml_file,     \* the file at xml_path: <<>> is the source bytes, <<s>> is s written
  file_opens,   \* how many times xml_path was opened for writing
  lastOp,       \* the method called last
  result,       \* "ok" or the exception the last call raised
  ret,          \* what the last call returned (<<>> when nothing)
  scans,        \* the inspector calls of the last check_files: <<inspector, section, path>>
  n_updates,    \* how many times make_update was called
  calls         \* how many methods were called

vars == <<xml_doc, D_ams, D_app, D_content, has_preview, has_poster, is_update,
          is_delete, param_skip, xml_file, file_opens, lastOp, result, ret,
          scans, n_updates, calls>>

\* The object: everything a method of VodPackage can assign.
package_state == <<D_ams, D_app, D_content, has_preview, has_poster, is_update, is_delete>>

(***************************************************************************)
(* Bounds                                                                  *)
(***************************************************************************)
\* Number of method calls made on one package.
MaxCalls == 3
\* Number of App_Data elements of the title section of a round-trip document.
MaxAppData == 3
\* Number of calls among which the rescanning and writing methods are called.
MaxScanCalls == 2

(***************************************************************************)
(* Dictionaries                                                            *)
(***************************************************************************)
\* d[k] = v on a dict.
Put(f, k, v) == [x \in (DOMAIN f) \cup {k} |-> IF x = k THEN v ELSE f[x]]

\* del d[k] on a dict that has k.
Del(f, k) == [x \in (DOMAIN f) \ {k} |-> f[x]]

\* d.get(k, default).
GetOr(f, k, default) == IF k \in DOMAIN f THEN f[k] ELSE default

\* The empty dict.
EmptyDict == [x \in {} |-> ""]

\* Keys of an association list.
Keys(al) == {al[i][1] : i \in DOMAIN al}

\* al[k] on an association list that has k.
Lookup(al, k) == al[CHOOSE i \in DOMAIN al : al[i][1] = k][2]

\* del al[k]: the other items keep their order.
DelKey(al, k) == SelectSeq(al, LAMBDA p : p[1] # k)

(***************************************************************************)
(* Strings and integers                                                    *)
(***************************************************************************)
\* Version_Major values a document carries: canonical numerals and one
\* with a leading zero, which int() accepts and str() never produces.
VersionStrings == {"0", "1", "2", "01"}

\* str(n) for an integer.
str(n) == ToString(n)

\* int(s) for the numerals that occur: the loaded ones and str() of a bumped one.
int(s) ==
  IF s = "01" THEN 1
  ELSE CHOOSE n \in 0..(3 + MaxCalls) : str(n) = s


\* Python's order of the strings that occur as attribute and App_Data names
\* (code points: upper case < "_" < lower case), as sorted() sees them.
StringOrder ==
  << "Asset_Class", "Asset_ID", "Audio_Type", "Bit_Rate", "Codec",
     "Content_CheckSum", "Content_FileSize", "Display_Run_Time", "Frame_Rate",
     "Genre", "Image_Aspect_Ratio", "Product", "Provider_Content_Tier",
     "Provider_ID", "Rating",
     "Resolution", "Run_Time", "Title", "Type", "Verb", "Version_Major" >>

\* sorted(d.items(), key=lambda x: x[0]): the keys of d in ascending order.
sorted(d) == SelectSeq(StringOrder, LAMBDA k : k \in DOMAIN d)

(***************************************************************************)
(* Documents: what etree.parse hands to __init__                           *)
(***************************************************************************)
AssetClasses == {"movie", "preview", "poster"}

\* VodPackage._multiples
multiples ==
  { "Provider_Content_Tier", "Subscriber_View_Limit", "Rating", "MSORating",
    "Advisories", "Audience", "Actors", "Director", "Producers", "Category",
    "Genre", "Chapter", "Recording_Artist", "Song_Title", "Languages",
    "Subtitle_Languages", "Dubbed_Languages" }

\* An <App_Data App=.. Name=.. Value=..> element.
AppDataElement(app, name, value) == [App |-> app, Name |-> name, Value |-> value]

AssetId ==
  [package |-> "PKG0", title |-> "TTL0", movie |-> "MOV0", preview |-> "PRE0",
   poster |-> "PST0"]

ContentFile == [movie |-> "movie.mpg", preview |-> "preview.mpg", poster |-> "poster.bmp"]

\* The attributes of an <AMS> element; verb is <<>> or <<v>>.
AmsElement(class, version, verb) ==
  LET base == [Asset_Class |-> class, Asset_ID |-> AssetId[class], Product |-> "MOD",
               Provider_ID |-> "example.com", Version_Major |-> version]
  IN IF verb = <<>> THEN base ELSE Put(base, "Verb", verb[1])

\* Sequences of distinct asset classes: the nested <Asset> elements in document order.
Layouts ==
  { s \in UNION { [1..n -> AssetClasses] : n \in 0..Cardinality(AssetClasses) } :
      \A i, j \in DOMAIN s : i # j => s[i] # s[j] }

\* An ADI document.
Document(pkgVersion, aeVersion, verb, layout, withContent, titleApp) ==
  [ package |-> [AMS |-> AmsElement("package", pkgVersion, verb),
                 App_Data |-> << AppDataElement("MOD", "Provider_Content_Tier", "TIER") >>],
    title   |-> [AMS |-> AmsElement("title", aeVersion, verb),
                 App_Data |-> titleApp],
    assets  |-> [ i \in DOMAIN layout |->
                   [AMS |-> AmsElement(layout[i], aeVersion, verb),
                    App_Data |-> << AppDataElement("MOD", "Type", layout[i]) >>,
                    Content |-> IF layout[i] \in withContent
                                THEN << ContentFile[layout[i]] >> ELSE << >>] ] ]

(***************************************************************************)
(* __init__                                                                *)
(***************************************************************************)
RECURSIVE parse_App_Data_from(_, _)
parse_App_Data_from(elements, D) ==
  IF elements = << >> THEN D
  ELSE LET key == Head(elements).Name
           value == Head(elements).Value
           D2 == IF key \in multiples
                 THEN IF key \in DOMAIN D
                      THEN Put(D, key, Append(D[key], value))
                      ELSE Put(D, key, << value >>)
                 ELSE Put(D, key, value)
       IN parse_App_Data_from(Tail(elements), D2)

RECURSIVE parse_App_Data_last_from(_, _)
parse_App_Data_last_from(elements, D) ==
  IF elements = << >> THEN D
  ELSE LET key == Head(elements).Name
           value == Head(elements).Value
           D2 == IF key \in multiples THEN Put(D, key, << value >>)
                 ELSE Put(D, key, value)
       IN parse_App_Data_last_from(Tail(elements), D2)

\* parse_App_Data with "D[key] = [value]" on every occurrence of a repeated name.
parse_App_Data_keeps_last(ae_Metadata) ==
  parse_App_Data_last_from(ae_Metadata.App_Data, EmptyDict)

\* VodPackage._parse_App_Data
parse_App_Data(ae_Metadata) == parse_App_Data_from(ae_Metadata.App_Data, EmptyDict)

\* d[k] = v on an association list: a new key goes last, an old one keeps its place.
PutKey(al, k, v) ==
  IF k \in Keys(al)
  THEN [i \in DOMAIN al |-> IF al[i][1] = k THEN << k, v >> ELSE al[i]]
  ELSE Append(al, << k, v >>)

\* The loop over title_Asset.findall("Asset") of __init__, from the maps so far.
RECURSIVE load_assets(_, _)
load_assets(assets, maps) ==
  IF assets = << >> THEN maps
  ELSE LET ae_Asset == Head(assets)
           ae_type == ae_Asset.AMS["Asset_Class"]
       IN load_assets(Tail(assets),
            [ams |-> Put(maps.ams, ae_type, ae_Asset.AMS),
             app |-> Put(maps.app, ae_type, parse_App_Data(ae_Asset)),
             content |-> IF ae_Asset.Content # << >>
                         THEN PutKey(maps.content, ae_type, ae_Asset.Content[1])
                         ELSE maps.content])

\* The three maps __init__ builds from a document.
load(doc) ==
  load_assets(doc.assets,
    [ams |-> [t \in {"package", "title"} |-> doc[t].AMS],
     app |-> [t \in {"package", "title"} |-> parse_App_Data(doc[t])],
     content |-> << >>])

\* The state after VodPackage(xml_path) on a document, under a skip configuration.
Constructed(doc, skip) ==
  LET maps == load(doc) IN
  /\ xml_doc = doc
  /\ D_ams = maps.ams
  /\ D_app = maps.app
  /\ D_content = maps.content
  /\ has_preview = ("preview" \in DOMAIN maps.ams)
  /\ has_poster = ("poster" \in DOMAIN maps.ams)
  /\ is_update = (maps.ams["package"]["Version_Major"] # "1")
  /\ is_delete = (GetOr(doc.package.AMS, "Verb", "") = "DELETE")
  /\ param_skip = skip
  /\ xml_file = << >>
  /\ file_opens = 0
  /\ lastOp = "__init__"
  /\ result = "ok"
  /\ ret = << >>
  /\ scans = << >>
  /\ n_updates = 0
  /\ calls = 0

\* The title App_Data of the documents whose App_Data is not the subject.
PlainTitleApp ==
  << AppDataElement("MOD", "Title", "Movie"), AppDataElement("MOD", "Genre", "Drama") >>

\* Documents of the mutation life cycle: every layout of the nested assets, with
\* and without Content elements, several versions, with and without a Verb.
LifeDocuments ==
  { Document(pv, av, vb, lay, wc, PlainTitleApp) :
      pv \in VersionStrings, av \in {"1", "3"}, vb \in {<< >>, << "DELETE" >>},
      lay \in Layouts, wc \in SUBSET AssetClasses }

Init == \E doc \in LifeDocuments : Constructed(doc, {})

(***************************************************************************)
(* Mutation operations                                                     *)
(***************************************************************************)
\* What every method call records.
Called(op, exc, value) ==
  /\ calls < MaxCalls
  /\ calls' = calls + 1
  /\ lastOp' = op
  /\ result' = exc
  /\ ret' = value

\* _remove_ae that treats an absent section as nothing to do.
remove_ae_silent(ams, app, content, ae_type) ==
  IF ae_type \notin DOMAIN ams
  THEN [ams |-> ams, app |-> app, content |-> content, exc |-> "ok"]
  ELSE IF ae_type \notin DOMAIN app
  THEN [ams |-> Del(ams, ae_type), app |-> app, content |-> content,
        exc |-> "MissingElement"]
  ELSE IF ae_type \notin Keys(content)
  THEN [ams |-> Del(ams, ae_type), app |-> Del(app, ae_type), content |-> content,
        exc |-> "MissingElement"]
  ELSE [ams |-> Del(ams, ae_type), app |-> Del(app, ae_type),
        content |-> DelKey(content, ae_type), exc |-> "ok"]

\* VodPackage._remove_ae: the three del statements in order; the first KeyError
\* becomes MissingElement and keeps the deletions made before it.
remove_ae(ams, app, content, ae_type) ==
  IF ae_type \notin DOMAIN ams
  THEN [ams |-> ams, app |-> app, content |-> content, exc |-> "MissingElement"]
  ELSE IF ae_type \notin DOMAIN app
  THEN [ams |-> Del(ams, ae_type), app |-> app, content |-> content,
        exc |-> "MissingElement"]
  ELSE IF ae_type \notin Keys(content)
  THEN [ams |-> Del(ams, ae_type), app |-> Del(app, ae_type), content |-> content,
        exc |-> "MissingElement"]
  ELSE [ams |-> Del(ams, ae_type), app |-> Del(app, ae_type),
        content |-> DelKey(content, ae_type), exc |-> "ok"]

\* VodPackage.remove_preview: the flag is cleared only when _remove_ae returns.
remove_preview ==
  LET r == remove_ae(D_ams, D_app, D_content, "preview") IN
  /\ Called("remove_preview", r.exc, << >>)
  /\ D_ams' = r.ams
  /\ D_app' = r.app
  /\ D_content' = r.content
  /\ has_preview' = IF r.exc = "ok" THEN FALSE ELSE has_preview
  /\ UNCHANGED <<xml_doc, has_poster, is_update, is_delete, param_skip, xml_file,
                 file_opens, scans, n_updates>>

\* VodPackage.remove_poster
remove_poster ==
  LET r == remove_ae(D_ams, D_app, D_content, "poster") IN
  /\ Called("remove_poster", r.exc, << >>)
  /\ D_ams' = r.ams
  /\ D_app' = r.app
  /\ D_content' = r.content
  /\ has_poster' = IF r.exc = "ok" THEN FALSE ELSE has_poster
  /\ UNCHANGED <<xml_doc, has_preview, is_update, is_delete, param_skip, xml_file,
                 file_opens, scans, n_updates>>

\* The loop of make_update that forgets the nested assets.
bump_versions_outer_only(ams) ==
  [t \in DOMAIN ams |->
     IF t \in {"package", "title"}
     THEN Put(ams[t], "Version_Major", str(int(ams[t]["Version_Major"]) + 1))
     ELSE ams[t]]

\* The loop of make_update: Version_Major of every section of D_ams, as
\* str(int(..) + 1).
bump_versions(ams) ==
  [t \in DOMAIN ams |->
     Put(ams[t], "Version_Major", str(int(ams[t]["Version_Major"]) + 1))]

\* VodPackage.make_update
make_update ==
  /\ Called("make_update", "ok", << >>)
  /\ D_ams' = bump_versions(D_ams)
  /\ D_content' = << >>
  /\ is_update' = TRUE
  /\ n_updates' = n_updates + 1
  /\ UNCHANGED <<xml_doc, D_app, has_preview, has_poster, is_delete, param_skip,
                 xml_file, file_opens, scans>>

\* The loop of make_delete that also resets the version.
mark_delete_resets_version(ams) ==
  [t \in DOMAIN ams |-> Put(Put(ams[t], "Verb", "DELETE"), "Version_Major", "1")]

\* The loop of make_delete: Verb of every section of D_ams.
mark_delete(ams) == [t \in DOMAIN ams |-> Put(ams[t], "Verb", "DELETE")]

\* VodPackage.make_delete
make_delete ==
  /\ Called("make_delete", "ok", << >>)
  /\ D_ams' = mark_delete(D_ams)
  /\ is_delete' = TRUE
  /\ UNCHANGED <<xml_doc, D_app, D_content, has_preview, has_poster, is_update,
                 param_skip, xml_file, file_opens, scans, n_updates>>

(***************************************************************************)
(* list_files                                                              *)
(***************************************************************************)
\* The identifiers and the file of one nested asset, as list_files reads them:
\* guard says whether the section is read, fileGuard whether its file is.
\* A read of a missing key raises KeyError.
asset_entry(ams, content, ae_type, guard, fileGuard) ==
  IF guard /\ ae_type \notin DOMAIN ams THEN [exc |-> "KeyError", value |-> << >>]
  ELSE IF fileGuard /\ ae_type \notin Keys(content)
  THEN [exc |-> "KeyError", value |-> << >>]
  ELSE [exc |-> "ok",
        value |-> << IF guard THEN ams[ae_type]["Provider_ID"] ELSE "",
                     IF guard THEN ams[ae_type]["Asset_ID"] ELSE "",
                     IF fileGuard THEN Lookup(content, ae_type) ELSE "" >>]

\* VodPackage.list_files: the movie is guarded by membership in the maps, the
\* preview and the poster by has_preview and has_poster alone.
list_files_outcome(ams, content, hasPreview, hasPoster) ==
  LET movie == asset_entry(ams, content, "movie", "movie" \in DOMAIN ams,
                           "movie" \in Keys(content))
      preview == asset_entry(ams, content, "preview", hasPreview, hasPreview)
      poster == asset_entry(ams, content, "poster", hasPoster, hasPoster)
  IN IF preview.exc # "ok" THEN preview
     ELSE IF poster.exc # "ok" THEN poster
     ELSE [exc |-> "ok",
           value |-> << ams["package"]["Provider_ID"], ams["package"]["Asset_ID"],
                        ams["title"]["Provider_ID"], ams["title"]["Asset_ID"] >>
                     \o movie.value \o preview.value \o poster.value]

\* A call of list_files.
list_files ==
  LET r == list_files_outcome(D_ams, D_content, has_preview, has_poster) IN
  /\ Called("list_files", r.exc, r.value)
  /\ UNCHANGED <<xml_doc, D_ams, D_app, D_content, has_preview, has_poster, is_update,
                 is_delete, param_skip, xml_file, file_opens, scans, n_updates>>

(***************************************************************************)
(* The content files and the external inspectors                           *)
(***************************************************************************)
\* os.path.split(self.xml_path): the directory and the name of the XML file.
xml_path == [dir |-> "/vod", name |-> "package.xml"]

\* os.path.join(ae_dir, ae_name) for a relative name.
path_join(ae_dir, ae_name) == ae_dir \o "/" \o ae_name

\* The paths the documents' Content elements resolve to.
ContentPaths == { path_join(xml_path.dir, ContentFile[c]) : c \in AssetClasses }

\* The bytes of the content files that exist.
FileBytes(path) ==
  IF path = path_join(xml_path.dir, ContentFile["movie"]) THEN << 77, 80, 71 >>
  ELSE IF path = path_join(xml_path.dir, ContentFile["preview"]) THEN << 77, 80 >>
  ELSE << 66 >>

\* os.path.getsize
getsize(path) == Len(FileBytes(path))

\* The default chunk_bytes of md5_checksum.
chunk_bytes == 163840

\* The read loop of md5_checksum: chunks of at most chunk bytes are fed to the
\* digest until a read returns nothing; the digest sees their concatenation.
RECURSIVE md5_update(_, _, _)
md5_update(rest, chunk, seen) ==
  IF rest = << >> THEN seen
  ELSE LET n == IF Len(rest) < chunk THEN Len(rest) ELSE chunk
       IN md5_update(SubSeq(rest, n + 1, Len(rest)), chunk, seen \o SubSeq(rest, 1, n))

\* md5_checksum(file_path): the digest, a string that stands for the bytes hashed.
md5_checksum(file_path) ==
  "md5:" \o ToString(md5_update(FileBytes(file_path), chunk_bytes, << >>))

\* What check_video may report.  Numbers that MediaInfo gives as decimal strings
\* are integers here: Duration in ms, Frame_rate in thousandths, Overall_bit_rate
\* in bit/s.  Channels is <<>> when the Audio track has no "Channel(s)".
VideoInfos ==
  { [Commercial_name |-> "MPEG-2 Video", Format_profile |-> << "M", "@", "M" >>,
     Duration |-> 5400500, Overall_bit_rate |-> 3750000, Height |-> "480",
     Scan_type |-> << "I", "n", "t" >>, Frame_rate |-> 29970, Channels |-> << 2 >>],
    [Commercial_name |-> "AVC", Format_profile |-> << "H", "i", "@", "L", "4", ".", "0" >>,
     Duration |-> 150000, Overall_bit_rate |-> 8000499, Height |-> "1080",
     Scan_type |-> << "P", "r", "o" >>, Frame_rate |-> 23976, Channels |-> << >>],
    [Commercial_name |-> "VC-1", Format_profile |-> << "A", "P" >>,
     Duration |-> 1500, Overall_bit_rate |-> 500, Height |-> "720",
     Scan_type |-> << "P", "r", "o" >>, Frame_rate |-> 25000, Channels |-> << 1 >>] }

\* What check_picture reports.
ImageInfo == [Width |-> "320", Height |-> "240"]

\* round(n / d) of Python 3 for non-negative integers: halves go to the even side.
round_div(n, d) ==
  LET q == n \div d
      r == n % d
  IN IF 2 * r < d THEN q
     ELSE IF 2 * r > d THEN q + 1
     ELSE IF q % 2 = 0 THEN q ELSE q + 1

\* format(n, "02")
format02(n) == IF n < 10 THEN "0" \o str(n) ELSE str(n)

\* "".join(chars)
RECURSIVE join_chars(_)
join_chars(chars) == IF chars = << >> THEN "" ELSE Head(chars) \o join_chars(Tail(chars))

\* s.find("@"): the 0-based index of the first "@", or -1.
find_at(chars) ==
  IF \E i \in DOMAIN chars : chars[i] = "@"
  THEN (CHOOSE i \in DOMAIN chars : chars[i] = "@" /\ \A j \in 1..(i - 1) : chars[j] # "@") - 1
  ELSE -1

\* s[k:] for k >= -1: a negative start counts from the end.
slice_from(chars, k) ==
  LET start == IF k < 0 THEN (IF Len(chars) + k < 0 THEN 0 ELSE Len(chars) + k) ELSE k
  IN SubSeq(chars, start + 1, Len(chars))

\* s.replace(".", "")
strip_dots(chars) == SelectSeq(chars, LAMBDA c : c # ".")

\* c.lower() for the first letters of the scan types.
lower(c) == IF c = "P" THEN "p" ELSE IF c = "I" THEN "i" ELSE c

\* D[section][key] = value
PutIn(app, section, key, value) == Put(app, section, Put(app[section], key, value))

\* The part of _scan_video after the codec: audio type, geometry, rates.
scan_video_rest(app, ae_type, info) ==
  LET audio_type == IF info.Channels = << >> THEN 0 ELSE info.Channels[1]
      a1 == PutIn(app, ae_type, "Audio_Type", IF audio_type > 1 THEN "Stereo" ELSE "Mono")
      a2 == PutIn(a1, ae_type, "Resolution", info.Height \o lower(info.Scan_type[1]))
      a3 == PutIn(a2, ae_type, "Frame_Rate", str(round_div(info.Frame_rate, 1000)))
  IN PutIn(a3, ae_type, "Bit_Rate", str(round_div(info.Overall_bit_rate, 1000)))

\* The run time lines of _scan_video: on the title for the movie, on the
\* preview for the preview.
scan_video_run_time(app, ae_type, info) ==
  LET total == round_div(info.Duration, 1000)
      duration_h == format02(total \div 3600)
      duration_m == format02((total % 3600) \div 60)
      duration_s == format02((total % 3600) % 60)
      run_time == duration_h \o ":" \o duration_m \o ":" \o duration_s
  IN IF ae_type = "movie"
     THEN [exc |-> "ok",
           app |-> PutIn(PutIn(app, "title", "Run_Time", run_time),
                         "title", "Display_Run_Time", duration_h \o ":" \o duration_m)]
     ELSE IF ae_type = "preview"
     THEN IF "preview" \in DOMAIN app
          THEN [exc |-> "ok", app |-> PutIn(app, "preview", "Run_Time", run_time)]
          ELSE [exc |-> "KeyError", app |-> app]
     ELSE [exc |-> "ok", app |-> app]

\* "AVC {}P{}".format(avc_profile, avc_level): the first character of the
\* format profile, and the profile from its "@" on without the dots.
avc_codec(format_profile) ==
  "AVC " \o format_profile[1] \o "P"
    \o join_chars(strip_dots(slice_from(format_profile, find_at(format_profile))))

\* The codec lines of _scan_video and what follows them, given the outcome rt
\* of the run time lines.  Assignments made before an exception stay.
scan_video_codec(rt, content, ae_type, info) ==
  IF rt.exc # "ok" THEN rt
  ELSE IF info.Commercial_name \in {"MPEG-2 Video", "AVC"}
  THEN IF ae_type \notin DOMAIN rt.app
       THEN [exc |-> "KeyError", app |-> rt.app]
       ELSE [exc |-> "ok",
             app |-> scan_video_rest(
                       PutIn(rt.app, ae_type, "Codec",
                             IF info.Commercial_name = "AVC"
                             THEN avc_codec(info.Format_profile) ELSE "MPEG2"),
                       ae_type, info)]
  ELSE IF ae_type \in Keys(content)
  THEN [exc |-> "InvalidMpeg", app |-> rt.app]
  ELSE [exc |-> "KeyError", app |-> rt.app]

\* VodPackage._scan_video with the report of check_video(ae_path): the maps
\* afterwards and the exception raised, if any.
scan_video(app, content, ae_type, info) ==
  scan_video_codec(scan_video_run_time(app, ae_type, info), content, ae_type, info)

\* VodPackage._scan_image
scan_image(app) ==
  IF "poster" \in DOMAIN app
  THEN [exc |-> "ok",
        app |-> PutIn(app, "poster", "Image_Aspect_Ratio",
                      ImageInfo.Width \o "x" \o ImageInfo.Height)]
  ELSE [exc |-> "KeyError", app |-> app]

\* The loop of check_files over D_content.items(), on the files of disk: size
\* and checksum of each file in turn, MissingElement at the first absent one.
RECURSIVE stat_files(_, _, _)
stat_files(items, app, disk) ==
  IF items = << >> THEN [exc |-> "ok", app |-> app]
  ELSE LET ae_type == Head(items)[1]
           ae_path == path_join(xml_path.dir, Head(items)[2])
       IN IF ae_path \notin disk THEN [exc |-> "MissingElement", app |-> app]
          ELSE IF ae_type \notin DOMAIN app THEN [exc |-> "KeyError", app |-> app]
          ELSE stat_files(Tail(items),
                 PutIn(PutIn(app, ae_type, "Content_FileSize", str(getsize(ae_path))),
                       ae_type, "Content_CheckSum", md5_checksum(ae_path)),
                 disk)

\* The path each inspector is given by check_files: the loop variable ae_path
\* as the loop over D_content left it.
path_scanned(content, ae_type) == path_join(xml_path.dir, content[Len(content)][2])

\* The end of check_files: the poster, given the outcome p of the scans before
\* it and the inspector calls made so far.
check_files_poster(p, called, content, hasPoster) ==
  IF p.exc # "ok" THEN [exc |-> p.exc, app |-> p.app, scans |-> called]
  ELSE IF hasPoster
  THEN [exc |-> scan_image(p.app).exc, app |-> scan_image(p.app).app,
        scans |-> Append(called, << "check_picture", "poster",
                                    path_scanned(content, "poster") >>)]
  ELSE [exc |-> "ok", app |-> p.app, scans |-> called]

\* check_files from the preview on, given the outcome m of the scan of the movie.
check_files_preview(m, called, content, hasPreview, hasPoster, probe) ==
  IF m.exc # "ok" THEN [exc |-> m.exc, app |-> m.app, scans |-> called]
  ELSE IF hasPreview
  THEN check_files_poster(
         scan_video(m.app, content, "preview", probe[path_scanned(content, "preview")]),
         Append(called, << "check_video", "preview", path_scanned(content, "preview") >>),
         content, hasPoster)
  ELSE check_files_poster(m, called, content, hasPoster)

\* check_files after its loop, given the outcome st of the loop: with no
\* Content reference ae_path was never bound.
check_files_scans(st, content, hasPreview, hasPoster, probe) ==
  IF st.exc # "ok" THEN [exc |-> st.exc, app |-> st.app, scans |-> << >>]
  ELSE IF content = << >>
  THEN [exc |-> "UnboundLocalError", app |-> st.app, scans |-> << >>]
  ELSE check_files_preview(
         scan_video(st.app, content, "movie", probe[path_scanned(content, "movie")]),
         << << "check_video", "movie", path_scanned(content, "movie") >> >>,
         content, hasPreview, hasPoster, probe)

\* VodPackage.check_files on the files of disk, with probe[path] the report of
\* check_video(path): the App_Data afterwards, the exception, the inspector calls.
check_files_outcome(app, content, hasPreview, hasPoster, disk, probe) ==
  check_files_scans(stat_files(content, app, disk), content, hasPreview, hasPoster, probe)

\* The paths the Content references resolve to.
Referenced(content) == { path_join(xml_path.dir, content[i][2]) : i \in DOMAIN content }

\* What the inspector reports for a file no call looks at.
AnyInfo == CHOOSE info \in VideoInfos : TRUE

\* The environments of a rescan: which referenced files exist and what
\* check_video reports for each of them.  Files that the package does not
\* reference are never looked at, so they are left out.
Environments(content, rescan) ==
  IF rescan
  THEN { [disk |-> d,
          probe |-> [p \in ContentPaths |-> IF p \in Referenced(content) THEN f[p] ELSE AnyInfo]] :
           d \in SUBSET Referenced(content), f \in [Referenced(content) -> VideoInfos] }
  ELSE { [disk |-> {}, probe |-> [p \in ContentPaths |-> AnyInfo]] }

\* A call of a rescanning method is made within the first MaxScanCalls calls.
ScanCalled(op, exc, value) == calls < MaxScanCalls /\ Called(op, exc, value)

\* What a call of check_files leaves behind, given its outcome.
check_files_returns(r) ==
  /\ ScanCalled("check_files", r.exc, << >>)
  /\ D_app' = r.app
  /\ scans' = r.scans
  /\ UNCHANGED <<xml_doc, D_ams, D_content, has_preview, has_poster, is_update,
                 is_delete, param_skip, xml_file, file_opens, n_updates>>

\* A call of check_files; the files on disk and the reports of the video
\* inspector are the environment's.
check_files ==
  \E env \in Environments(D_content, TRUE) :
    check_files_returns(check_files_outcome(D_app, D_content, has_preview, has_poster,
                                            env.disk, env.probe))

\* VodPackage.files_present: whether every referenced file exists.
files_present ==
  \E disk \in SUBSET Referenced(D_content) :
    /\ ScanCalled("files_present", "ok",
                  << \A i \in DOMAIN D_content :
                        path_join(xml_path.dir, D_content[i][2]) \in disk >>)
    /\ UNCHANGED <<xml_doc, D_ams, D_app, D_content, has_preview, has_poster, is_update,
                   is_delete, param_skip, xml_file, file_opens, scans, n_updates>>

(***************************************************************************)
(* The serializer                                                          *)
(***************************************************************************)
\* The App_Data elements of one dict, for its keys in the order given.
RECURSIVE app_data_elements(_, _, _, _)
app_data_elements(keys, D, product, skip) ==
  IF keys = << >> THEN << >>
  ELSE LET key == Head(keys)
           emitted ==
             IF key \in skip THEN << >>
             ELSE IF key \in multiples
             THEN [i \in DOMAIN D[key] |-> AppDataElement(product, key, D[key][i])]
             ELSE << AppDataElement(product, key, D[key]) >>
       IN emitted \o app_data_elements(Tail(keys), D, product, skip)

\* VodPackage._write_App_Data: the elements appended to the section's Metadata.
write_App_Data(ae_type, app, ams, skip) ==
  app_data_elements(sorted(app[ae_type]), app[ae_type], ams["package"]["Product"], skip)

\* The attributes set on an AMS element, in the order they are set.
ams_attributes(attrib) ==
  LET keys == sorted(attrib) IN [i \in DOMAIN keys |-> << keys[i], attrib[keys[i]] >>]

\* A Metadata element: its AMS and its App_Data children.
metadata(ae_type, ams, app, skip) ==
  [AMS |-> ams_attributes(ams[ae_type]), App_Data |-> write_App_Data(ae_type, app, ams, skip)]

\* The document write_xml builds and hands to etree.tostring.
serialize(ams, app, content, skip) ==
  LET present == SelectSeq(<< "movie", "preview", "poster" >>, LAMBDA t : t \in DOMAIN ams)
  IN [ xml_declaration |-> "utf-8",
       doctype |-> "<!DOCTYPE ADI SYSTEM \"ADI.DTD\">",
       package |-> metadata("package", ams, app, skip),
       title |-> metadata("title", ams, app, skip),
       assets |-> [ i \in DOMAIN present |->
                     [ Metadata |-> metadata(present[i], ams, app, skip),
                       Content |-> IF present[i] \in Keys(content)
                                   THEN << Lookup(content, present[i]) >> ELSE << >> ] ] ]

\* write_xml after its rescan, given the outcome c of the rescan: the document
\* is built from the maps as the rescan left them.
write_xml_build(c, ams, content, skip) ==
  IF c.exc # "ok"
  THEN [exc |-> c.exc, value |-> << >>, app |-> c.app, scans |-> c.scans]
  ELSE [exc |-> "ok", value |-> serialize(ams, c.app, content, skip),
        app |-> c.app, scans |-> c.scans]

\* VodPackage.write_xml(rewrite): the exception or the document returned, the
\* App_Data afterwards and the inspector calls made (kept from before when
\* check_files did not run).
write_xml_outcome(ams, app, content, hasPreview, hasPoster, skip, before, rewrite, disk, probe) ==
  IF "movie" \notin DOMAIN ams
  THEN [exc |-> "MissingElement", value |-> << >>, app |-> app, scans |-> before]
  ELSE IF rewrite
  THEN write_xml_build(check_files_outcome(app, content, hasPreview, hasPoster, disk, probe),
                       ams, content, skip)
  ELSE write_xml_build([exc |-> "ok", app |-> app, scans |-> before], ams, content, skip)

\* What a call of write_xml leaves behind, given its outcome.
write_xml_returns(w) ==
  /\ ScanCalled("write_xml", w.exc, w.value)
  /\ D_app' = w.app
  /\ scans' = w.scans
  /\ UNCHANGED <<xml_doc, D_ams, D_content, has_preview, has_poster, is_update,
                 is_delete, param_skip, xml_file, file_opens, n_updates>>

\* A call of write_xml(rewrite).
write_xml(rewrite) ==
  \E env \in Environments(D_content, rewrite) :
    write_xml_returns(write_xml_outcome(D_ams, D_app, D_content, has_preview, has_poster,
                                        param_skip, scans, rewrite, env.disk, env.probe))

\* overwrite_xml that opens the file before it serializes: the file is
\* truncated whether or not write_xml returns.
overwrite_outcome_open_first(w, file, opens) ==
  IF w.exc # "ok"
  THEN [file |-> << << >> >>, opens |-> opens + 1]
  ELSE [file |-> << w.value >>, opens |-> opens + 1]

\* The file at xml_path after overwrite_xml, given the outcome w of its call of
\* write_xml: open(.., "wb") and write(s) run only when write_xml returned s.
overwrite_outcome(w, file, opens) ==
  IF w.exc # "ok"
  THEN [file |-> file, opens |-> opens]
  ELSE [file |-> << w.value >>, opens |-> opens + 1]

\* What a call of overwrite_xml leaves behind, given the outcome w of its call
\* of write_xml and the file f afterwards.
overwrite_xml_returns(w, f) ==
  /\ ScanCalled("overwrite_xml", w.exc, << >>)
  /\ D_app' = w.app
  /\ scans' = w.scans
  /\ xml_file' = f.file
  /\ file_opens' = f.opens
  /\ UNCHANGED <<xml_doc, D_ams, D_content, has_preview, has_poster, is_update,
                 is_delete, param_skip, n_updates>>

\* overwrite_xml, given the outcome w of its call of write_xml.
overwrite_xml_writes(w) == overwrite_xml_returns(w, overwrite_outcome(w, xml_file, file_opens))

\* A call of overwrite_xml(rewrite).
overwrite_xml(rewrite) ==
  \E env \in Environments(D_content, rewrite) :
    overwrite_xml_writes(write_xml_outcome(D_ams, D_app, D_content, has_preview,
                                           has_poster, param_skip, scans, rewrite,
                                           env.disk, env.probe))

(***************************************************************************)
(* Specifications                                                          *)
(***************************************************************************)
Next ==
  \/ remove_preview
  \/ remove_poster
  \/ make_update
  \/ make_delete
  \/ list_files

\* The mutation life cycle of a loaded package.
Spec == Init /\ [][Next]_vars

\* Documents of the rescan: every layout of the nested assets, with and without
\* Content elements.
ScanDocuments ==
  { Document("1", "1", << >>, lay, wc, PlainTitleApp) :
      lay \in Layouts, wc \in SUBSET AssetClasses }

InitScan == \E doc \in ScanDocuments : Constructed(doc, {})

NextScan ==
  \/ check_files
  \/ files_present
  \/ \E rewrite \in BOOLEAN : write_xml(rewrite)
  \/ \E rewrite \in BOOLEAN : overwrite_xml(rewrite)
  \/ make_update
  \/ remove_preview
  \/ remove_poster

\* Rescan and write-back of a loaded package.
SpecScan == InitScan /\ [][NextScan]_vars

\* The App_Data elements a round-trip document draws from: a repeatable name
\* with three values and a single-valued name with two.
RoundTripElements ==
  { AppDataElement("MOD", "Genre", v) : v \in {"A", "B", "C"} }
    \cup { AppDataElement("SVOD", "Title", v) : v \in {"X", "Y"} }

\* Documents of the round trip: a movie and a preview, and every sequence of
\* at most MaxAppData App_Data elements in the title section.
RoundTripDocuments ==
  { Document("1", "1", << >>, << "movie", "preview" >>, {"movie"}, titleApp) :
      titleApp \in UNION { [1..n -> RoundTripElements] : n \in 0..MaxAppData } }

\* The skip configurations: any set of the names that occur.
SkipSets == SUBSET {"Genre", "Title"}

InitRoundTrip ==
  \E doc \in RoundTripDocuments, skip \in SkipSets : Constructed(doc, skip)

NextRoundTrip ==
  \/ write_xml(FALSE)
  \/ overwrite_xml(FALSE)

\* Load, then write without rescan.
SpecRoundTrip == InitRoundTrip /\ [][NextRoundTrip]_vars

(***************************************************************************)
(* Properties of the mutation life cycle                                   *)
(***************************************************************************)
\* The maps as __init__ built them from the source document.
loaded == load(xml_doc)

\* A step that is a call of remove_preview (resp. remove_poster) on a package
\* with no such section in D_ams.
RemoveOfAbsent(op, ae_type) == lastOp' = op /\ ae_type \notin DOMAIN D_ams

\* C1: removing a preview (poster) section that the package does not have
\* raises MissingElement and leaves D_ams, D_app, D_content, has_preview,
\* has_poster, is_update and is_delete as they were, in every reachable state,
\* a second removal included.
C1_RemoveMissingUnchanged ==
  [][ /\ RemoveOfAbsent("remove_preview", "preview")
           => (result' = "MissingElement" /\ UNCHANGED package_state)
      /\ RemoveOfAbsent("remove_poster", "poster")
           => (result' = "MissingElement" /\ UNCHANGED package_state) ]_vars

\* The preview was loaded, a removal of it has succeeded, and a further
\* remove_preview has just failed.
C1_Witness ==
  /\ "preview" \in DOMAIN loaded.ams
  /\ ~has_preview
  /\ "preview" \notin DOMAIN D_ams
  /\ lastOp = "remove_preview"
  /\ result = "MissingElement"

\* A step that is a call of op on a package that has the section in D_ams.
RemoveOfPresent(op, ae_type) == lastOp' = op /\ ae_type \in DOMAIN D_ams

\* The section is gone from all three maps after the step.
GoneAfter(ae_type) ==
  /\ ae_type \notin DOMAIN D_ams'
  /\ ae_type \notin DOMAIN D_app'
  /\ ae_type \notin Keys(D_content')

\* C2: removing a preview (poster) section that is present succeeds, leaves the
\* section absent from D_ams, D_app and D_content and clears has_preview
\* (has_poster); MissingElement is raised only when the section is absent.
C2_RemovePresentSucceeds ==
  [][ /\ RemoveOfPresent("remove_preview", "preview")
           => (result' = "ok" /\ GoneAfter("preview") /\ ~has_preview')
      /\ RemoveOfPresent("remove_poster", "poster")
           => (result' = "ok" /\ GoneAfter("poster") /\ ~has_poster') ]_vars

\* Version_Major of a section, as an integer.
VersionOf(ams, t) == int(ams[t]["Version_Major"])

\* C3: make_update leaves D_content empty, adds exactly 1 to Version_Major of
\* every section present (so n calls add exactly n), keeps the set of sections
\* and sets is_update; once an update was made no operation brings a Content
\* reference back.
C3_UpdateBumpsEverySection ==
  /\ [](/\ \A t \in DOMAIN D_ams :
             VersionOf(D_ams, t) = VersionOf(loaded.ams, t) + n_updates
        /\ n_updates > 0 => (D_content = << >> /\ is_update))
  /\ [][ lastOp' = "make_update" =>
           /\ D_content' = << >>
           /\ DOMAIN D_ams' = DOMAIN D_ams
           /\ \A t \in DOMAIN D_ams : VersionOf(D_ams', t) = VersionOf(D_ams, t) + 1
           /\ is_update' ]_vars

\* A package loaded with a movie Content reference and a preview, updated at
\* least twice and then through another operation.
C3_Witness ==
  /\ "movie" \in Keys(loaded.content)
  /\ "preview" \in DOMAIN D_ams
  /\ n_updates >= 2
  /\ lastOp # "make_update"

\* C4: make_delete sets Verb to "DELETE" in the AMS of every section present
\* and sets is_delete; it leaves D_app, D_content, every other AMS attribute,
\* the set of sections, has_preview, has_poster and is_update as they were.
C4_DeleteFrame ==
  [][ lastOp' = "make_delete" =>
        /\ DOMAIN D_ams' = DOMAIN D_ams
        /\ \A t \in DOMAIN D_ams :
             /\ DOMAIN D_ams'[t] = DOMAIN D_ams[t] \cup {"Verb"}
             /\ D_ams'[t]["Verb"] = "DELETE"
             /\ \A k \in DOMAIN D_ams[t] \ {"Verb"} : D_ams'[t][k] = D_ams[t][k]
        /\ is_delete'
        /\ UNCHANGED <<D_app, D_content, has_preview, has_poster, is_update>> ]_vars

\* make_delete has just run on an updated package that was loaded without a
\* Verb and still has its poster.
C4_Witness ==
  /\ lastOp = "make_delete"
  /\ "Verb" \notin DOMAIN loaded.ams["package"]
  /\ "poster" \in DOMAIN D_ams
  /\ n_updates > 0

\* What list_files is to return for one nested asset: the identifiers of a
\* section that is present, the file of a section that has a Content reference,
\* the empty string otherwise.
ExpectedEntry(ae_type) ==
  << IF ae_type \in DOMAIN D_ams THEN D_ams[ae_type]["Provider_ID"] ELSE "",
     IF ae_type \in DOMAIN D_ams THEN D_ams[ae_type]["Asset_ID"] ELSE "",
     IF ae_type \in Keys(D_content) THEN Lookup(D_content, ae_type) ELSE "" >>

\* C5: list_files never fails in a state reached by the mutation operations; it
\* returns the identifiers of each section (empty strings for an absent one)
\* and the content file name (the empty string without a Content reference).
C5_ListFilesNeverFails ==
  lastOp = "list_files" =>
    /\ result = "ok"
    /\ ret = << D_ams["package"]["Provider_ID"], D_ams["package"]["Asset_ID"],
                D_ams["title"]["Provider_ID"], D_ams["title"]["Asset_ID"] >>
             \o ExpectedEntry("movie") \o ExpectedEntry("preview")
             \o ExpectedEntry("poster")

\* C9: has_preview holds exactly when D_ams has a preview section, has_poster
\* exactly when it has a poster section, failed calls included.
C9_FlagsFollowMaps ==
  /\ has_preview <=> "preview" \in DOMAIN D_ams
  /\ has_poster <=> "poster" \in DOMAIN D_ams

\* C10: is_update holds exactly when Version_Major of the package AMS is not
\* "1", is_delete exactly when its Verb is "DELETE".
C10_DerivedFlags ==
  /\ is_update <=> D_ams["package"]["Version_Major"] # "1"
  /\ is_delete <=> GetOr(D_ams["package"], "Verb", "") = "DELETE"

(***************************************************************************)
(* Properties of the rescan, the serializer and the write-back             *)
(***************************************************************************)
\* C6: after a check_files that raised nothing, every inspector call made for
\* a section with a Content reference was made on the path of that section's
\* own reference: the movie's for the movie, the preview's for the preview, the
\* poster's for the poster.
C6_EachSectionScansItsOwnFile ==
  (lastOp = "check_files" /\ result = "ok") =>
    \A i \in DOMAIN scans :
      scans[i][2] \in Keys(D_content) =>
        scans[i][3] = path_join(xml_path.dir, Lookup(D_content, scans[i][2]))

\* The Name/Value pairs of the elements named name, in order.
ValuesOf(elements, name) ==
  LET named == SelectSeq(elements, LAMBDA e : e.Name = name)
  IN [i \in DOMAIN named |-> named[i].Value]

\* The Metadata of a section of the source document.
SourceMetadata(doc, t) ==
  IF t \in {"package", "title"} THEN doc[t]
  ELSE doc.assets[CHOOSE i \in DOMAIN doc.assets : doc.assets[i].AMS["Asset_Class"] = t]

\* The Metadata of a section of a written document.
WrittenMetadata(s, t) ==
  IF t \in {"package", "title"} THEN s[t]
  ELSE s.assets[CHOOSE i \in DOMAIN s.assets :
                  \E j \in DOMAIN s.assets[i].Metadata.AMS :
                    s.assets[i].Metadata.AMS[j] = << "Asset_Class", t >>].Metadata

\* Position of a name in Python's string order.
Rank(name) == CHOOSE i \in DOMAIN StringOrder : StringOrder[i] = name

\* The names of the sequence never descend.
Ascending(names) ==
  \A i, j \in DOMAIN names : i < j => Rank(names[i]) <= Rank(names[j])

\* No single-valued App_Data name occurs twice in a section of the document.
WellFormed(doc) ==
  \A t \in DOMAIN load(doc).ams :
    LET elements == SourceMetadata(doc, t).App_Data IN
    \A i, j \in DOMAIN elements :
      (i # j /\ elements[i].Name = elements[j].Name) => elements[i].Name \in multiples

\* The written AMS of section t holds exactly the attributes of the source, in
\* ascending order of their names.
AmsRoundTrip(doc, s, t) ==
  LET source == SourceMetadata(doc, t).AMS
      written == WrittenMetadata(s, t).AMS
  IN /\ Len(written) = Cardinality(DOMAIN source)
     /\ \A k \in DOMAIN source : \E i \in DOMAIN written : written[i] = << k, source[k] >>
     /\ Ascending([i \in DOMAIN written |-> written[i][1]])

\* The written App_Data of section t holds, for every name outside omitted,
\* the values of the source in document order, duplicates kept; nothing for a
\* name in omitted; and the names ascend.
AppDataRoundTrip(doc, s, t, omitted) ==
  LET source == SourceMetadata(doc, t).App_Data
      written == WrittenMetadata(s, t).App_Data
      names == {source[i].Name : i \in DOMAIN source}
              \cup {written[i].Name : i \in DOMAIN written}
  IN /\ \A n \in names \ omitted : ValuesOf(written, n) = ValuesOf(source, n)
     /\ \A n \in omitted : ValuesOf(written, n) = << >>
     /\ Ascending([i \in DOMAIN written |-> written[i].Name])

\* The loaded value of every repeatable name is the sequence of its values in
\* document order.
LoadedSequences(doc, t) ==
  LET source == SourceMetadata(doc, t).App_Data IN
  \A i \in DOMAIN source :
    source[i].Name \in multiples =>
      loaded.app[t][source[i].Name] = ValuesOf(source, source[i].Name)

\* write_xml has returned a document for a well-formed package as loaded.
WrittenAsLoaded ==
  /\ lastOp = "write_xml"
  /\ result = "ok"
  /\ WellFormed(xml_doc)
  /\ D_ams = loaded.ams
  /\ D_app = loaded.app

\* C7 as stated: load then write_xml without rescan emits, for every section
\* present, exactly the AMS attributes loaded and exactly the App_Data entries
\* loaded, in sorted key order, a repeatable name's values in document order
\* with duplicates kept.
C7_RoundTripExact ==
  WrittenAsLoaded =>
    \A t \in DOMAIN D_ams :
      /\ AmsRoundTrip(xml_doc, ret, t)
      /\ LoadedSequences(xml_doc, t)
      /\ AppDataRoundTrip(xml_doc, ret, t, {})

\* C7 amended: the same, except that the App_Data entries whose name is in the
\* configured skip set are not emitted.
C7_RoundTripModuloSkip ==
  WrittenAsLoaded =>
    \A t \in DOMAIN D_ams :
      /\ AmsRoundTrip(xml_doc, ret, t)
      /\ LoadedSequences(xml_doc, t)
      /\ AppDataRoundTrip(xml_doc, ret, t, param_skip)

\* A title with Genre A, B, C in that order was loaded and written with
\* nothing skipped.
C7_Witness ==
  /\ WrittenAsLoaded
  /\ param_skip = {}
  /\ ValuesOf(xml_doc.title.App_Data, "Genre") = << "A", "B", "C" >>
  /\ ValuesOf(WrittenMetadata(ret, "title").App_Data, "Genre") = << "A", "B", "C" >>

\* C8: an overwrite_xml that raises has neither opened the file for writing nor
\* changed its bytes; one that returns has replaced the bytes by the complete
\* document of the package; no other method touches the file.
C8_FailedOverwriteKeepsFile ==
  [][ IF lastOp' = "overwrite_xml"
      THEN IF result' = "ok"
           THEN /\ file_opens' = file_opens + 1
                /\ xml_file' = << serialize(D_ams', D_app', D_content', param_skip) >>
           ELSE /\ file_opens' = file_opens
                /\ xml_file' = xml_file
      ELSE UNCHANGED <<xml_file, file_opens>> ]_vars

\* An overwrite_xml with rescan has just failed on an unrecognized codec, after
\* an earlier overwrite_xml had written the file.
C8_Witness ==
  /\ lastOp = "overwrite_xml"
  /\ result = "InvalidMpeg"
  /\ file_opens = 1
  /\ xml_file # << >>
====
